---- MODULE Spec2Model ----
(***************************************************************************)
(* TokenRouter: the chat-completion admission pipeline                     *)
(* (app/api/proxy.py), the in-memory rate limiter and the token/quota      *)
(* checks (app/core/auth.py), the usage recorder (app/services/usage.py),  *)
(* the upstream forwarder (app/services/proxy.py) and the admin            *)
(* operations that touch the same team rows (app/api/admin.py).            *)
(*                                                                         *)
(* Every request handler owns one database session.  A handler is a        *)
(* sequence of steps; steps of different handlers interleave freely, the   *)
(* database being shared by all handlers (event loop, thread pool, other   *)
(* worker processes).  The rate-limit tracker is a module-level dict that  *)
(* is only touched inside check_rate_limit, which contains no suspension   *)
(* point, so one call of it is one step.                                   *)
(***************************************************************************)
EXTENDS Integers, Sequences, FiniteSets, TLC

\* ------------------------------------------------------------------ bounds
NumSlots == 2        \* request handlers that can be in flight together
MaxRequests == 2     \* chat-completion invocations started in one behaviour
MaxTicks == 1        \* clock advances in one behaviour
MaxAdminOps == 1     \* admin operations in one behaviour
RLMaxRequests == 3   \* invocations in one behaviour of the rate-limiter workload
RLMaxTicks == 2      \* clock advances in one behaviour of that workload
FwdMaxRequests == 2  \* invocations in one behaviour of the forwarder workload
MaxRestarts == 1     \* process restarts in one behaviour
MaxWaits == 2        \* clock advances in one behaviour of the timed workload
NumAdminSlots == 2   \* admin and registration handlers that can be in flight together
MaxTeamOps == 2      \* team-table operations in one behaviour of the team workload

Slots == 1..NumSlots
TeamIds == {1, 2}
TickSteps == {1, 59, 60}     \* seconds the clock may advance in one step

\* ------------------------------------------------------- program constants
RateWindow == 60         \* timedelta(minutes=1), in seconds
None == "None"

HTTP_200 == 200
HTTP_400 == 400
HTTP_401 == 401
HTTP_403 == 403
HTTP_429 == 429
HTTP_500 == 500
HTTP_502 == 502
HTTP_504 == 504

DefaultRegistrationQuota == 500000   \* settings.default_registration_quota
RegistrationRateLimit == 60          \* max_requests_per_minute of a registered account

\* ------------------------------------------------------------------ inputs
\* An Authorization header "<scheme> <cred>".
Headers ==
    {[scheme |-> "Basic", cred |-> "tokA"]} \cup
    {[scheme |-> "Bearer", cred |-> c] : c \in {"", "tokX", "tokA", "tokB"}}

\* Requested model names; settings.allowed_models holds "GPT-5-nano".
ModelNames == {"gpt-5-nano", "GPT-5-NANO", "Llama"}
allowed_models_list == <<"GPT-5-nano">>

ChatCompletionRequest == [model : ModelNames, stream : BOOLEAN]

\* The requests a caller sends: every body under the token of team 1, a
\* body that fails every check of the body under the token of team 2, and a
\* body that passes them under every header.
Requests ==
    {[hdr |-> [scheme |-> "Bearer", cred |-> "tokA"], body |-> b] :
        b \in ChatCompletionRequest} \cup
    {[hdr |-> [scheme |-> "Bearer", cred |-> "tokB"],
      body |-> [model |-> "Llama", stream |-> TRUE]]} \cup
    {[hdr |-> h, body |-> [model |-> "gpt-5-nano", stream |-> FALSE]] : h \in Headers}

\* str.lower() on the model names in play.
Lower(m) ==
    CASE m = "GPT-5-nano" -> "gpt-5-nano"
      [] m = "GPT-5-NANO" -> "gpt-5-nano"
      [] m = "Llama" -> "llama"
      [] OTHER -> m

\* What the transport can deliver for one POST to the provider.  A body is
\* described by what response.json() and the .get() chains make of it: its
\* text, whether it parses as JSON, whether the JSON value is an object, its
\* error.message and its usage counts.
Body(text, json, object, message, has_usage, p, c, t) ==
    [text |-> text, json |-> json, object |-> object, message |-> message,
     has_usage |-> has_usage, prompt_tokens |-> p, completion_tokens |-> c,
     total_tokens |-> t]
NoBody == Body("", FALSE, FALSE, None, FALSE, 0, 0, 0)
TransportOutcomes ==
    {[kind |-> "response", status |-> 200, body |-> Body("completion", TRUE, TRUE, None, TRUE, 1, 0, 1)],
     [kind |-> "response", status |-> 200, body |-> Body("completion", TRUE, TRUE, None, TRUE, 1, 1, 2)],
     [kind |-> "response", status |-> 200, body |-> Body("completion", TRUE, TRUE, None, FALSE, 0, 0, 0)],
     [kind |-> "response", status |-> 200, body |-> Body("<html>", FALSE, FALSE, None, FALSE, 0, 0, 0)],
     [kind |-> "response", status |-> 200, body |-> Body("[]", TRUE, FALSE, None, FALSE, 0, 0, 0)],
     [kind |-> "response", status |-> 400, body |-> Body("{error}", TRUE, TRUE, "bad request", FALSE, 0, 0, 0)],
     [kind |-> "timeout", status |-> 0, body |-> NoBody],
     [kind |-> "connect", status |-> 0, body |-> NoBody]}

\* ------------------------------------------------------------------- state
VARIABLES
    teams,          \* teams table: id -> row
    logs,           \* request_logs table, in insertion order
    tracker,        \* _rate_limit_tracker: team id -> list of timestamps
    now,            \* datetime.utcnow(), in seconds
    ticks,          \* clock advances so far
    adminOps,       \* admin operations so far
    started,        \* invocations started so far
    pc,             \* slot -> position of its handler
    hdr,            \* slot -> Authorization header of the request
    req,            \* slot -> request body
    team,           \* slot -> the Team object held by the handler's session
    response_data,  \* slot -> provider response held by the handler
    rd,             \* slot -> used_tokens as loaded by update_team_usage
    evaluated,      \* slot -> gates evaluated so far, in order (history)
    nlog,           \* slot -> log rows written by the invocation (history)
    ncalls,         \* slot -> provider calls made by the invocation (history)
    outcome,        \* slot -> what the transport delivered to the invocation (history)
    last,           \* the invocation that finished most recently (history)
    decisions,      \* team id -> when check_rate_limit ran and what it decided (history)
    credited,       \* team id -> total_tokens of each finished credit (history)
    resetSeen,      \* team id -> an admin reset has happened (history)
    adm,            \* admin slot -> the create, register or update handler it runs
    sent,           \* slot -> the outstanding client.post: its JSON body, seconds waited
    connected,      \* slot -> the caller's connection is still open
    restarts,       \* process restarts so far
    usage_reply     \* what the most recent GET /v1/usage/{username} returned

vars == <<teams, logs, tracker, now, ticks, adminOps, started, pc, hdr, req,
          team, response_data, rd, evaluated, nlog, ncalls, outcome, last,
          decisions, credited, resetSeen, adm, sent, connected, restarts,
          usage_reply>>

db == <<teams, logs>>
limiter == <<tracker, decisions>>
clock == <<now, ticks>>
history == <<evaluated, nlog, ncalls, outcome, sent>>
env == <<restarts, usage_reply>>
admin == <<adminOps, adm>>

NoTeam == [id |-> 0, quota_tokens |-> 0, used_tokens |-> 0,
           max_requests_per_minute |-> 0]
NoHeader == [scheme |-> "", cred |-> ""]
NoRequest == [model |-> "", stream |-> FALSE]
NoResult == [status_code |-> 0, detail |-> <<>>]
NoOutcome == [kind |-> "none", status |-> 0, body |-> NoBody]
NoPost == [payload |-> <<>>, waited |-> 0]
NoReply == [username |-> "", id |-> 0, body |-> <<>>]

NoInvocation ==
    [hdr |-> NoHeader, req |-> NoRequest, team |-> NoTeam, result |-> NoResult,
     evaluated |-> <<>>, nlog |-> 0, ncalls |-> 0, outcome |-> NoOutcome,
     returned |-> NoBody, connected |-> TRUE]

TeamRow(name, email, token, quota_tokens, max_requests_per_minute) ==
    [name |-> name, email |-> email, token |-> token,
     quota_tokens |-> quota_tokens, used_tokens |-> 0,
     max_requests_per_minute |-> max_requests_per_minute, is_active |-> TRUE]

InitTeams ==
    (1 :> TeamRow("alpha", None, "tokA", 1, 2)) @@
    (2 :> TeamRow("beta", None, "tokB", 1, 1))

AdminSlots == 1..NumAdminSlots
NoRow == [name |-> "", email |-> None, token |-> "", quota_tokens |-> 0,
          used_tokens |-> 0, max_requests_per_minute |-> 0, is_active |-> FALSE]
IdleAdmin == [pc |-> "idle", id |-> 0, row |-> NoRow, result |-> None]

Init ==
    /\ teams = InitTeams
    /\ logs = <<>>
    /\ tracker = [t \in TeamIds |-> <<>>]
    /\ now = 0
    /\ ticks = 0
    /\ adminOps = 0
    /\ started = 0
    /\ pc = [i \in Slots |-> "idle"]
    /\ hdr = [i \in Slots |-> NoHeader]
    /\ req = [i \in Slots |-> NoRequest]
    /\ team = [i \in Slots |-> NoTeam]
    /\ response_data = [i \in Slots |-> NoBody]
    /\ rd = [i \in Slots |-> 0]
    /\ evaluated = [i \in Slots |-> <<>>]
    /\ nlog = [i \in Slots |-> 0]
    /\ ncalls = [i \in Slots |-> 0]
    /\ outcome = [i \in Slots |-> NoOutcome]
    /\ last = NoInvocation
    /\ decisions = [t \in TeamIds |-> <<>>]
    /\ credited = [t \in TeamIds |-> <<>>]
    /\ resetSeen = [t \in TeamIds |-> FALSE]
    /\ adm = [a \in AdminSlots |-> IdleAdmin]
    /\ sent = [i \in Slots |-> NoPost]
    /\ connected = [i \in Slots |-> TRUE]
    /\ restarts = 0
    /\ usage_reply = NoReply

handler == <<pc, hdr, req, team, response_data, rd, connected>>

\* --------------------------------------------------------- pure functions
\* Settings.is_model_allowed
allowed_models_lowercase ==
    [k \in 1..Len(allowed_models_list) |-> Lower(allowed_models_list[k])]

\* The comparison made on the names as written, without lower-casing.
is_model_allowed_exact(model) ==
    \E k \in 1..Len(allowed_models_list) : allowed_models_list[k] = model

is_model_allowed(model) ==
    \E k \in 1..Len(allowed_models_lowercase) :
        allowed_models_lowercase[k] = Lower(model)

\* The fields of ChatCompletionRequest that can hold None in the requests
\* drawn here; their values are written as JSON text.
NullableFields == {"temperature", "max_tokens"}

\* request.model_dump(exclude_none=True)
model_dump(request) ==
    [f \in {g \in DOMAIN request :
                ~(g \in NullableFields /\ request[g] = None)} |-> request[f]]

\* payload = request.model_dump(exclude_none=True); payload["model"] = model_lower
Payload(request) ==
    LET dumped == model_dump(request)
    IN  [f \in DOMAIN dumped |->
            IF f = "model" THEN Lower(request.model) ELSE dumped[f]]

\* A fixed one-minute bucket in place of the trailing window: keep the
\* timestamps that fall in the same clock minute as now.
Prune_bucket(window, one_minute_ago) ==
    SelectSeq(window, LAMBDA ts : ts \div RateWindow = (one_minute_ago + RateWindow) \div RateWindow)

\* The list comprehension of check_rate_limit: the timestamps it keeps.
RECURSIVE Prune(_, _)
Prune(window, one_minute_ago) ==
    IF window = <<>> THEN <<>>
    ELSE IF Head(window) > one_minute_ago
         THEN <<Head(window)>> \o Prune(Tail(window), one_minute_ago)
         ELSE Prune(Tail(window), one_minute_ago)

\* Off by one: a team at exactly its quota is still admitted.
QuotaExceeded_gt(t) == t.used_tokens > t.quota_tokens

\* check_quota: TRUE when it raises 429.
QuotaExceeded(t) == t.used_tokens >= t.quota_tokens

\* ProxyService.forward_chat_completion, from the transport outcome to what
\* the coroutine returns or raises.
Raise(code, detail) ==
    [raised |-> TRUE, status_code |-> code, detail |-> detail, data |-> NoBody]

\* A 200 reply whose body does not parse handed back as a normal return.
forward_chat_completion_swallow(o) ==
    CASE o.kind = "timeout" ->
            Raise(HTTP_504, <<"Request to provider timed out">>)
      [] o.kind = "connect" ->
            Raise(HTTP_502, <<"Error connecting to provider: ", "connect">>)
      [] o.kind = "response" /\ o.status # 200 ->
            Raise(o.status,
                  <<"Provider error: ",
                    IF o.body.json /\ o.body.object /\ o.body.message # None
                    THEN o.body.message ELSE o.body.text>>)
      [] OTHER ->
            [raised |-> FALSE, status_code |-> HTTP_200, detail |-> <<>>,
             data |-> o.body]

forward_chat_completion(o) ==
    CASE o.kind = "timeout" ->
            Raise(HTTP_504, <<"Request to provider timed out">>)
      [] o.kind = "connect" ->
            Raise(HTTP_502, <<"Error connecting to provider: ", "connect">>)
      [] o.kind = "response" /\ o.status # 200 ->
            Raise(o.status,
                  <<"Provider error: ",
                    IF o.body.json /\ o.body.object /\ o.body.message # None
                    THEN o.body.message ELSE o.body.text>>)
      [] o.kind = "response" /\ o.status = 200 /\ ~o.body.json ->
            Raise(HTTP_500, <<"Unexpected error: ", "JSONDecodeError">>)
      [] OTHER ->
            [raised |-> FALSE, status_code |-> HTTP_200, detail |-> <<>>,
             data |-> o.body]

\* The total taken from the input tokens alone.
LogRow_inputonly(team_id, model, input_tokens, output_tokens, status, error_message, request_payload, response_payload) ==
    [team_id |-> team_id, model |-> Lower(model),
     input_tokens |-> input_tokens, output_tokens |-> output_tokens,
     total_tokens |-> input_tokens, status |-> status,
     error_message |-> error_message, request_payload |-> request_payload,
     response_payload |-> response_payload]

\* log_request: the row it inserts.
LogRow(team_id, model, input_tokens, output_tokens, status, error_message, request_payload, response_payload) ==
    [team_id |-> team_id, model |-> Lower(model),
     input_tokens |-> input_tokens, output_tokens |-> output_tokens,
     total_tokens |-> input_tokens + output_tokens, status |-> status,
     error_message |-> error_message, request_payload |-> request_payload,
     response_payload |-> response_payload]

HTTPException(code, detail) == [status_code |-> code, detail |-> detail]

\* An insert that replaces the team's newest row instead of adding one.
log_request_upsert(rows, row) ==
    LET own == {k \in 1..Len(rows) : rows[k].team_id = row.team_id}
    IN  IF own = {}
        THEN Append(rows, row)
        ELSE [rows EXCEPT ![CHOOSE k \in own : \A m \in own : m <= k] = row]

\* log_request: db.add(log); db.commit()
log_request(rows, row) == Append(rows, row)

\* request_logs.team_id is a foreign key to teams.id: the insert of a row
\* whose team is gone fails with IntegrityError.
ForeignKeyViolation(row) == row.team_id \notin DOMAIN teams

\* The response to a request whose handler let an exception escape.
ServerError == HTTPException(HTTP_500, <<"Internal Server Error">>)

\* The handler of slot i returns or raises `res` after evaluating `gates`
\* and writing `rows` more log rows; `o` is what the transport delivered to
\* it and `data` the body it returns.  The response is sent and the handler
\* and its session are gone.
LeaveWith(i, res, gates, rows, o, data) ==
    /\ last' = [hdr |-> hdr[i], req |-> req[i], team |-> team[i], result |-> res,
                evaluated |-> evaluated[i] \o gates, nlog |-> nlog[i] + rows,
                ncalls |-> ncalls[i], outcome |-> o, returned |-> data,
                connected |-> connected[i]]
    /\ pc' = [pc EXCEPT ![i] = "idle"]
    /\ hdr' = [hdr EXCEPT ![i] = NoHeader]
    /\ req' = [req EXCEPT ![i] = NoRequest]
    /\ team' = [team EXCEPT ![i] = NoTeam]
    /\ response_data' = [response_data EXCEPT ![i] = NoBody]
    /\ rd' = [rd EXCEPT ![i] = 0]
    /\ evaluated' = [evaluated EXCEPT ![i] = <<>>]
    /\ nlog' = [nlog EXCEPT ![i] = 0]
    /\ ncalls' = [ncalls EXCEPT ![i] = 0]
    /\ outcome' = [outcome EXCEPT ![i] = NoOutcome]
    /\ sent' = [sent EXCEPT ![i] = NoPost]
    /\ connected' = [connected EXCEPT ![i] = TRUE]

Leave(i, res, gates, rows) == LeaveWith(i, res, gates, rows, outcome[i], NoBody)

\* The handler of slot i calls log_request(row) and then raises `res`; an
\* insert that fails raises instead, and that exception escapes the handler.
Logged(i, row, res, gates, o) ==
    IF ForeignKeyViolation(row)
    THEN /\ logs' = logs
         /\ LeaveWith(i, ServerError, gates, 0, o, NoBody)
    ELSE /\ logs' = log_request(logs, row)
         /\ LeaveWith(i, res, gates, 1, o, NoBody)

\* The handler of slot i goes on to `next` after evaluating `gates`.
Continue(i, next, gates) ==
    /\ pc' = [pc EXCEPT ![i] = next]
    /\ evaluated' = [evaluated EXCEPT ![i] = @ \o gates]
    /\ UNCHANGED last

\* ----------------------------------------------------------------- actions
\* A forwarder that waits for the provider in a blocking call: the event
\* loop runs no other handler until the call is over.
Runnable_blocking(i) == \A j \in Slots \ {i} : pc[j] # "Forward"

\* The event loop can run the handler of slot i: forward_chat_completion
\* awaits the POST of an httpx.AsyncClient, so a handler that waits for the
\* provider does not hold the loop.
Runnable(i) == TRUE

\* The is_active test left out: any team whose token matches is returned.
TokenAuthResult_noactive(authorization) ==
    LET token == authorization.cred
        found == {t \in DOMAIN teams : teams[t].token = token}
    IN  IF authorization.scheme # "Bearer"
        THEN [id |-> 0, exc |-> HTTPException(HTTP_401, <<"Invalid authorization header format">>)]
        ELSE IF token = ""
        THEN [id |-> 0, exc |-> HTTPException(HTTP_401, <<"Token not provided">>)]
        ELSE IF found = {}
        THEN [id |-> 0, exc |-> HTTPException(HTTP_401, <<"Invalid token">>)]
        ELSE [id |-> CHOOSE t \in found : TRUE, exc |-> NoResult]

\* validate_team_token: what it raises, or the team row it returns.
TokenAuthResult(authorization) ==
    LET token == authorization.cred
        found == {t \in DOMAIN teams : teams[t].token = token}
    IN  IF authorization.scheme # "Bearer"
        THEN [id |-> 0, exc |-> HTTPException(HTTP_401, <<"Invalid authorization header format">>)]
        ELSE IF token = ""
        THEN [id |-> 0, exc |-> HTTPException(HTTP_401, <<"Token not provided">>)]
        ELSE IF found = {}
        THEN [id |-> 0, exc |-> HTTPException(HTTP_401, <<"Invalid token">>)]
        ELSE LET t == CHOOSE t \in found : TRUE
             IN  IF ~teams[t].is_active
                 THEN [id |-> 0, exc |-> HTTPException(HTTP_403, <<"Team is inactive">>)]
                 ELSE [id |-> t, exc |-> NoResult]

\* An authentication failure written to the log under the team whose token
\* was presented, if there is one.
AuthFailureLog_logged(rows, r, exc) ==
    LET found == {t \in DOMAIN teams : teams[t].token = r.hdr.cred}
    IN  IF found = {}
        THEN rows
        ELSE Append(rows, LogRow(CHOOSE t \in found : TRUE, r.body.model, 0, 0,
                                 "error", exc.detail, <<>>, NoBody))

\* validate_team_token raises its HTTPException without a call of
\* log_request: the log after a request that failed authentication.
AuthFailureLog(rows, r, exc) == rows

\* A POST /v1/chat/completions arrives at a free handler and its
\* Depends(validate_team_token) runs: the session loads the team row, or the
\* request ends with the exception.
validate_team_token_of(i, inputs, limit) ==
    /\ pc[i] = "idle"
    /\ started < limit
    /\ started' = started + 1
    /\ \E r \in inputs :
        LET a == TokenAuthResult(r.hdr)
        IN  IF a.id = 0
            THEN /\ last' = [hdr |-> r.hdr, req |-> r.body, team |-> NoTeam,
                             result |-> a.exc, evaluated |-> <<"TokenAuth">>,
                             nlog |-> 0, ncalls |-> 0, outcome |-> NoOutcome,
                             returned |-> NoBody, connected |-> TRUE]
                 /\ logs' = AuthFailureLog(logs, r, a.exc)
                 /\ UNCHANGED <<pc, hdr, req, team, connected, evaluated>>
            ELSE /\ hdr' = [hdr EXCEPT ![i] = r.hdr]
                 /\ req' = [req EXCEPT ![i] = r.body]
                 /\ team' = [team EXCEPT ![i] =
                        [id |-> a.id,
                         quota_tokens |-> teams[a.id].quota_tokens,
                         used_tokens |-> teams[a.id].used_tokens,
                         max_requests_per_minute |-> teams[a.id].max_requests_per_minute]]
                 /\ Continue(i, "RateLimit", <<"TokenAuth">>)
                 /\ UNCHANGED <<logs, connected>>
    /\ UNCHANGED <<teams, limiter, clock, env, admin, response_data, rd, nlog,
                   ncalls, sent, outcome, credited, resetSeen>>

validate_team_token(i) == validate_team_token_of(i, Requests, MaxRequests)

\* Off by one: the limit is exceeded only above it.
RateLimitExceeded_gt(current_count, limit) == current_count > limit

\* check_rate_limit: the comparison that raises 429.
RateLimitExceeded(current_count, limit) == current_count >= limit

\* One list shared by all teams.
Key_shared(team_id) == CHOOSE t \in TeamIds : \A u \in TeamIds : t <= u

\* The key of a team's list in _rate_limit_tracker: team.id
Key(team_id) == team_id

\* An accepted request that leaves no timestamp behind.
Record_dropped(window, ts) == window

\* _rate_limit_tracker[team.id].append(now)
Record(window, ts) == Append(window, ts)

\* check_rate_limit(team)
check_rate_limit(i) ==
    /\ pc[i] = "RateLimit"
    /\ Runnable(i)
    /\ LET id == team[i].id
           one_minute_ago == now - RateWindow
           kept == Prune(tracker[Key(id)], one_minute_ago)
           current_count == Len(kept)
       IN  IF RateLimitExceeded(current_count, team[i].max_requests_per_minute)
           THEN /\ tracker' = [tracker EXCEPT ![Key(id)] = kept]
                /\ decisions' = [decisions EXCEPT ![id] = Append(@, [at |-> now, ok |-> FALSE])]
                /\ Leave(i, HTTPException(HTTP_429, <<"Rate limit exceeded">>),
                         <<"RateLimit">>, 0)
           ELSE /\ tracker' = [tracker EXCEPT ![Key(id)] = Record(kept, now)]
                /\ decisions' = [decisions EXCEPT ![id] = Append(@, [at |-> now, ok |-> TRUE])]
                /\ Continue(i, "Quota", <<"RateLimit">>)
                /\ UNCHANGED <<hdr, req, team, connected, response_data, rd, nlog, ncalls, sent,
                               outcome>>
    /\ UNCHANGED <<db, clock, env, admin, started, credited, resetSeen>>

\* The streaming check moved in front of the quota and model checks.
GatesOutcome_streamfirst(t, request) ==
    IF request.stream
    THEN [gates |-> <<"StreamingRejected">>, rows |-> 0,
          exc |-> HTTPException(HTTP_400, <<"Streaming is not supported">>)]
    ELSE IF QuotaExceeded(t)
    THEN [gates |-> <<"Quota">>, rows |-> 0,
          exc |-> HTTPException(HTTP_429, <<"Token quota exceeded">>)]
    ELSE IF ~is_model_allowed(request.model)
    THEN [gates |-> <<"Quota", "ModelAllowed">>, rows |-> 1,
          exc |-> HTTPException(HTTP_400, <<"Model is not available", request.model>>)]
    ELSE [gates |-> <<"Quota", "ModelAllowed", "StreamingRejected", "Forward">>,
          rows |-> 0, exc |-> NoResult]

\* The allowlist rejection raised without its log_request call.
GatesOutcome_modelunlogged(t, request) ==
    IF QuotaExceeded(t)
    THEN [gates |-> <<"Quota">>, rows |-> 0,
          exc |-> HTTPException(HTTP_429, <<"Token quota exceeded">>)]
    ELSE IF ~is_model_allowed(request.model)
    THEN [gates |-> <<"Quota", "ModelAllowed">>, rows |-> 0,
          exc |-> HTTPException(HTTP_400, <<"Model is not available", request.model>>)]
    ELSE IF request.stream
    THEN [gates |-> <<"Quota", "ModelAllowed", "StreamingRejected">>, rows |-> 0,
          exc |-> HTTPException(HTTP_400, <<"Streaming is not supported">>)]
    ELSE [gates |-> <<"Quota", "ModelAllowed", "StreamingRejected", "Forward">>,
          rows |-> 0, exc |-> NoResult]

\* chat_completions from check_quota(team) to the call of the forwarder:
\* the gates in the order the code evaluates them, the exception raised (or
\* none), and whether the rejection is logged.
GatesOutcome(t, request) ==
    IF QuotaExceeded(t)
    THEN [gates |-> <<"Quota">>, rows |-> 0,
          exc |-> HTTPException(HTTP_429, <<"Token quota exceeded">>)]
    ELSE IF ~is_model_allowed(request.model)
    THEN [gates |-> <<"Quota", "ModelAllowed">>, rows |-> 1,
          exc |-> HTTPException(HTTP_400, <<"Model is not available", request.model>>)]
    ELSE IF request.stream
    THEN [gates |-> <<"Quota", "ModelAllowed", "StreamingRejected">>, rows |-> 0,
          exc |-> HTTPException(HTTP_400, <<"Streaming is not supported">>)]
    ELSE [gates |-> <<"Quota", "ModelAllowed", "StreamingRejected", "Forward">>,
          rows |-> 0, exc |-> NoResult]

\* The error row written without the error's message.
ErrorLog_nomessage(i, message) ==
    LogRow(team[i].id, Lower(req[i].model), 0, 0, "error", <<>>, Payload(req[i]), NoBody)

\* log_request(db, team.id, model_lower, 0, 0, "error", message,
\* request_payload=request_data): the row of a failed request.
ErrorLog(i, message) ==
    LogRow(team[i].id, Lower(req[i].model), 0, 0, "error", message, Payload(req[i]), NoBody)

\* Two POSTs for one call of the forwarder: a retry.
Posts_retry == Len(<<"client.post", "client.post">>)

\* forward_chat_completion awaits client.post once; it has no loop.
Posts == 1

\* The block reads only the handler's own objects and has no suspension
\* point; it ends with the exception or with the POST to the provider issued.
admission_gates(i) ==
    /\ pc[i] = "Quota"
    /\ Runnable(i)
    /\ LET g == GatesOutcome(team[i], req[i])
       IN  IF g.exc # NoResult
           THEN IF g.rows = 1
                THEN Logged(i, ErrorLog(i, g.exc.detail), g.exc, g.gates, outcome[i])
                ELSE /\ logs' = logs
                     /\ Leave(i, g.exc, g.gates, 0)
           ELSE /\ Continue(i, "Forward", g.gates)
                /\ ncalls' = [ncalls EXCEPT ![i] = @ + Posts]
                /\ sent' = [sent EXCEPT ![i] = [payload |-> Payload(req[i]),
                                                waited |-> 0]]
                /\ UNCHANGED <<logs, hdr, req, team, connected, response_data, rd, nlog, outcome>>
    /\ UNCHANGED <<teams, limiter, clock, env, admin, started, credited, resetSeen>>

\* A handler that stops when its caller has gone away.
Abandons_disconnected(i) == ~connected[i]

\* chat_completions takes no Request object and never asks whether the
\* caller is still connected: it abandons no invocation.
Abandons(i) == FALSE

\* The awaited forward_chat_completion returns or raises; on HTTPException
\* the handler logs the error and re-raises it.
ForwardOf(i, outcomes) ==
    /\ pc[i] = "Forward"
    /\ ~Abandons(i)
    /\ \E o \in outcomes :
        LET r == forward_chat_completion(o)
        IN  IF r.raised
            THEN Logged(i, ErrorLog(i, r.detail),
                        HTTPException(r.status_code, r.detail), <<>>, o)
            ELSE /\ response_data' = [response_data EXCEPT ![i] = r.data]
                 /\ outcome' = [outcome EXCEPT ![i] = o]
                 /\ Continue(i, "Success", <<>>)
                 /\ UNCHANGED <<logs, hdr, req, team, connected, rd, nlog, ncalls, sent>>
    /\ UNCHANGED <<teams, limiter, clock, env, admin, started, credited, resetSeen>>

Forward(i) == ForwardOf(i, TransportOutcomes)

\* usage.get(name, 0) on response_data.get("usage", {})
UsageGet(data, name) == IF data.has_usage THEN data[name] ELSE 0

\* The except Exception block of chat_completions: one error row with
\* str(e), then HTTP 500.
Unexpected(i, cause) ==
    Logged(i, ErrorLog(i, <<cause>>),
           HTTPException(HTTP_500, <<"Internal error: ", cause>>), <<>>, outcome[i])

\* What a commit of the handler's session can do.
CommitOutcomes == {"committed", "OperationalError"}

\* log_request(db, team.id, model_lower, input_tokens, output_tokens,
\* "success", request_payload=payload, response_payload=response_data)
SuccessLog(i) ==
    LogRow(team[i].id, Lower(req[i].model),
           UsageGet(response_data[i], "prompt_tokens"),
           UsageGet(response_data[i], "completion_tokens"),
           "success", <<>>, Payload(req[i]), response_data[i])

\* chat_completions: extract the usage and log the successful request.
\* response_data.get raises when the provider's JSON is not an object.
LogSuccess(i) ==
    /\ pc[i] = "Success"
    /\ Runnable(i)
    /\ IF ~response_data[i].object
       THEN Unexpected(i, "AttributeError")
       ELSE \E c \in CommitOutcomes :
            IF c = "committed" /\ ForeignKeyViolation(SuccessLog(i))
            THEN Unexpected(i, "IntegrityError")
            ELSE IF c = "committed"
            THEN /\ logs' = log_request(logs, SuccessLog(i))
                 /\ nlog' = [nlog EXCEPT ![i] = @ + 1]
                 /\ Continue(i, "credit_read", <<>>)
                 /\ UNCHANGED <<hdr, req, team, connected, response_data, rd, ncalls, sent, outcome>>
            ELSE Unexpected(i, c)
    /\ UNCHANGED <<teams, limiter, clock, env, admin, started, credited, resetSeen>>

\* update_team_usage: team = db.query(Team).filter(Team.id == team_id).first()
\* A team that is gone is not credited and the handler returns response_data.
CreditRead(i) ==
    /\ pc[i] = "credit_read"
    /\ Runnable(i)
    /\ IF team[i].id \in DOMAIN teams
       THEN /\ rd' = [rd EXCEPT ![i] = teams[team[i].id].used_tokens]
            /\ Continue(i, "credit_write", <<>>)
            /\ UNCHANGED <<hdr, req, team, connected, response_data, nlog,
                           ncalls, sent, outcome>>
       ELSE LeaveWith(i, [status_code |-> HTTP_200, detail |-> <<"response_data">>],
                      <<"Success">>, 0, outcome[i], response_data[i])
    /\ UNCHANGED <<db, limiter, clock, env, admin, started, credited, resetSeen>>

\* The UPDATE of a commit that failed left in the table.
RolledBack_kept(i) ==
    [teams EXCEPT ![team[i].id].used_tokens =
        rd[i] + UsageGet(response_data[i], "total_tokens")]

\* The teams table after a db.commit() of update_team_usage that failed:
\* the session rolls the UPDATE back.
RolledBack(i) == teams

\* The UPDATE of update_team_usage finds no row: the team was deleted after
\* the session loaded it.
Stale(i) ==
    /\ team[i].id \notin DOMAIN teams
    /\ UsageGet(response_data[i], "total_tokens") # 0

\* update_team_usage: team.used_tokens += tokens_used; db.commit(); then the
\* handler returns response_data.  The session writes the attribute only
\* when its value differs from the one it loaded.  A commit that fails is
\* rolled back and its exception reaches the except Exception block.
CreditWrite(i) ==
    /\ pc[i] = "credit_write"
    /\ Runnable(i)
    /\ \E c \in CommitOutcomes :
        IF c = "committed" /\ Stale(i)
        THEN /\ Unexpected(i, "StaleDataError")
             /\ UNCHANGED <<teams, credited>>
        ELSE IF c = "committed"
        THEN LET id == team[i].id
                 tokens_used == UsageGet(response_data[i], "total_tokens")
             IN  /\ teams' = IF tokens_used = 0
                              THEN teams
                              ELSE [teams EXCEPT ![id].used_tokens = rd[i] + tokens_used]
                 /\ credited' = [credited EXCEPT ![id] = Append(@, tokens_used)]
                 /\ LeaveWith(i, [status_code |-> HTTP_200, detail |-> <<"response_data">>],
                              <<"Success">>, 0, outcome[i], response_data[i])
                 /\ UNCHANGED logs
        ELSE /\ Unexpected(i, c)
             /\ teams' = RolledBack(i)
             /\ UNCHANGED credited
    /\ UNCHANGED <<limiter, clock, env, admin, started, resetSeen>>

\* admin.update_team with team_data = {is_active: b}
update_team(t, is_active) ==
    /\ adminOps < MaxAdminOps
    /\ adminOps' = adminOps + 1
    /\ teams' = [teams EXCEPT ![t].is_active = is_active]
    /\ UNCHANGED <<logs, limiter, clock, env, started, handler, history, last,
                   credited, resetSeen, adm>>

\* admin.reset_team_usage
reset_team_usage(t) ==
    /\ adminOps < MaxAdminOps
    /\ adminOps' = adminOps + 1
    /\ teams' = [teams EXCEPT ![t].used_tokens = 0]
    /\ resetSeen' = [resetSeen EXCEPT ![t] = TRUE]
    /\ UNCHANGED <<logs, limiter, clock, env, started, handler, history, last,
                   credited, adm>>

\* Time passes.
TickOf(limit) ==
    /\ ticks < limit
    /\ ticks' = ticks + 1
    /\ \E d \in TickSteps : now' = now + d
    /\ UNCHANGED <<db, limiter, env, admin, started, handler, history, last,
                   credited, resetSeen>>

Tick == TickOf(MaxTicks)

Next ==
    \/ \E i \in Slots : validate_team_token(i)
    \/ \E i \in Slots : check_rate_limit(i)
    \/ \E i \in Slots : admission_gates(i)
    \/ \E i \in Slots : Forward(i)
    \/ \E i \in Slots : LogSuccess(i)
    \/ \E i \in Slots : CreditRead(i)
    \/ \E i \in Slots : CreditWrite(i)
    \/ \E t \in TeamIds, b \in BOOLEAN : update_team(t, b)
    \/ \E t \in TeamIds : reset_team_usage(t)
    \/ Tick

Spec == Init /\ [][Next]_vars

\* The rate-limiter workload: requests of the two teams that pass every gate
\* up to the streaming check, under a clock that runs past the window.
RLRequests ==
    {[hdr |-> [scheme |-> "Bearer", cred |-> c],
      body |-> [model |-> "gpt-5-nano", stream |-> TRUE]] : c \in {"tokA", "tokB"}}
validate_team_token_RL(i) == validate_team_token_of(i, RLRequests, RLMaxRequests)
TickRL == TickOf(RLMaxTicks)

NextRL ==
    \/ \E i \in Slots : validate_team_token_RL(i)
    \/ \E i \in Slots : check_rate_limit(i)
    \/ \E i \in Slots : admission_gates(i)
    \/ TickRL

SpecRL == Init /\ [][NextRL]_vars

\* ------------------------------------------------- the team-table workload
\* admin.create_team, admin.update_team (of the name) and
\* registration.register_user.  Each runs its SELECTs, then commits; the
\* handlers are sync functions on the thread pool, so handlers interleave
\* between the SELECTs and the commit.
TeamNames == {"alpha", "gamma"}
Emails == {"g@ln.hk", "G@LN.HK"}
Tokens == {"tokA", "tokC"}

\* str.lower() on the e-mail addresses in play.
LowerEmail(e) == IF e = "G@LN.HK" THEN "g@ln.hk" ELSE e

\* generate_token(): secrets.token_urlsafe(32), any token at all.
generate_token == Tokens

\* The unique index on teams.name left out.
NameTokenConflict_tokenonly(row, id) ==
    \E t \in DOMAIN teams \ {id} : teams[t].token = row.token

\* Column(..., unique=True) on teams.name and teams.token: the row cannot be
\* stored as team `id` beside the other rows.
NameTokenConflict(row, id) ==
    \E t \in DOMAIN teams \ {id} :
        teams[t].name = row.name \/ teams[t].token = row.token

\* The unique index on teams.email; NULLs do not conflict.
EmailConflict(row, id) ==
    row.email # None /\ \E t \in DOMAIN teams \ {id} : teams[t].email = row.email

\* The id the table gives the next inserted row.
NextId == 1 + Cardinality(DOMAIN teams)

AdminBegins(a) ==
    /\ adm[a].pc = "idle"
    /\ adminOps < MaxTeamOps
    /\ adminOps' = adminOps + 1

AdminEnds(a, result) ==
    adm' = [adm EXCEPT ![a] = [pc |-> "idle", id |-> 0, row |-> NoRow, result |-> result]]

AdminFrame ==
    UNCHANGED <<logs, limiter, clock, env, started, handler, history, last, credited,
                resetSeen>>

\* create_team up to db.add(team): the three existence checks.
create_team_check(a) ==
    /\ AdminBegins(a)
    /\ \E name \in TeamNames, email \in Emails \cup {None}, given \in Tokens \cup {None} :
        \E generated \in generate_token :
            LET token == IF given # None THEN given ELSE generated
                stored == IF email # None THEN LowerEmail(email) ELSE None
            IN  IF \E t \in DOMAIN teams : teams[t].name = name
                THEN AdminEnds(a, "400 name exists")
                ELSE IF email # None /\ \E t \in DOMAIN teams : teams[t].email = LowerEmail(email)
                THEN AdminEnds(a, "400 email exists")
                ELSE IF \E t \in DOMAIN teams : teams[t].token = token
                THEN AdminEnds(a, "400 token exists")
                ELSE adm' = [adm EXCEPT ![a] =
                        [pc |-> "insert", id |-> 0,
                         row |-> TeamRow(name, stored, token, 1, 2), result |-> None]]
    /\ UNCHANGED teams
    /\ AdminFrame

\* register_user from the username check to db.add(team); the request has
\* passed the access-code, format and domain checks.
register_user_check(a) ==
    /\ AdminBegins(a)
    /\ \E username \in TeamNames, email \in Emails :
        \E first \in generate_token, second \in generate_token :
            LET api_key == IF \E t \in DOMAIN teams : teams[t].token = first
                           THEN second ELSE first
            IN  IF \E t \in DOMAIN teams : teams[t].name = username
                THEN AdminEnds(a, "400 username taken")
                ELSE IF \E t \in DOMAIN teams : teams[t].email = LowerEmail(email)
                THEN AdminEnds(a, "400 email exists")
                ELSE adm' = [adm EXCEPT ![a] =
                        [pc |-> "insert", id |-> 0,
                         row |-> TeamRow(username, LowerEmail(email), api_key,
                                         DefaultRegistrationQuota, RegistrationRateLimit),
                         result |-> None]]
    /\ UNCHANGED teams
    /\ AdminFrame

\* db.add(team); db.commit() of create_team and register_user: the INSERT
\* is stored, or the table's unique indexes refuse it (IntegrityError).
insert_commit(a) ==
    /\ adm[a].pc = "insert"
    /\ IF NameTokenConflict(adm[a].row, 0) \/ EmailConflict(adm[a].row, 0)
       THEN AdminEnds(a, "IntegrityError") /\ UNCHANGED teams
       ELSE /\ teams' = teams @@ (NextId :> adm[a].row)
            /\ AdminEnds(a, "201")
    /\ UNCHANGED adminOps
    /\ AdminFrame

\* update_team with team_data = {name: name}, up to team.name = name.
update_team_check(a) ==
    /\ AdminBegins(a)
    /\ \E id \in DOMAIN teams, name \in TeamNames :
        IF \E t \in DOMAIN teams \ {id} : teams[t].name = name
        THEN AdminEnds(a, "400 name exists")
        ELSE adm' = [adm EXCEPT ![a] =
                [pc |-> "update", id |-> id, row |-> [teams[id] EXCEPT !.name = name],
                 result |-> None]]
    /\ UNCHANGED teams
    /\ AdminFrame

\* db.commit() of update_team: UPDATE teams SET name = ... WHERE id = ...
update_team_commit(a) ==
    /\ adm[a].pc = "update"
    /\ IF NameTokenConflict([teams[adm[a].id] EXCEPT !.name = adm[a].row.name], adm[a].id)
       THEN AdminEnds(a, "IntegrityError") /\ UNCHANGED teams
       ELSE /\ teams' = [teams EXCEPT ![adm[a].id].name = adm[a].row.name]
            /\ AdminEnds(a, "200")
    /\ UNCHANGED adminOps
    /\ AdminFrame

NextTeams ==
    \/ \E a \in AdminSlots : create_team_check(a)
    \/ \E a \in AdminSlots : register_user_check(a)
    \/ \E a \in AdminSlots : insert_commit(a)
    \/ \E a \in AdminSlots : update_team_check(a)
    \/ \E a \in AdminSlots : update_team_commit(a)

SpecTeams == Init /\ [][NextTeams]_vars

\* The forwarder workload: requests of team 1 that pass every gate, under
\* every kind of reply the transport can deliver.
FwdOutcomes ==
    TransportOutcomes \cup
    {[kind |-> "response", status |-> 503,
      body |-> Body("upstream down", FALSE, FALSE, None, FALSE, 0, 0, 0)],
     [kind |-> "response", status |-> 500,
      body |-> Body("{}", TRUE, TRUE, None, FALSE, 0, 0, 0)],
     [kind |-> "response", status |-> 404,
      body |-> Body("[]", TRUE, FALSE, None, FALSE, 0, 0, 0)]}
FwdRequests == {r \in Requests : r.hdr.cred = "tokA" /\ ~r.body.stream
                                  /\ is_model_allowed(r.body.model)}
validate_team_token_Fwd(i) == validate_team_token_of(i, FwdRequests, FwdMaxRequests)
ForwardFwd(i) == ForwardOf(i, FwdOutcomes)

NextFwd ==
    \/ \E i \in Slots : validate_team_token_Fwd(i)
    \/ \E i \in Slots : check_rate_limit(i)
    \/ \E i \in Slots : admission_gates(i)
    \/ \E i \in Slots : ForwardFwd(i)
    \/ \E i \in Slots : LogSuccess(i)
    \/ \E i \in Slots : CreditRead(i)
    \/ \E i \in Slots : CreditWrite(i)

SpecFwd == Init /\ [][NextFwd]_vars

\* ------------------------------------------------------------- vocabulary
RECURSIVE Sum(_)
Sum(q) == IF q = <<>> THEN 0 ELSE Head(q) + Sum(Tail(q))

Range(q) == {q[k] : k \in 1..Len(q)}

\* No handler holds a session on team t: every invocation of t has finished.
Quiet(t) == \A i \in Slots : team[i].id # t

\* An invocation has finished, and where it ended.
Finished == last.evaluated # <<>>
EndGate == last.evaluated[Len(last.evaluated)]
PastTokenAuth == Finished /\ last.team # NoTeam
RejectedAt(gate) == Finished /\ EndGate = gate /\ last.result.status_code # HTTP_200

\* --------------------------------------------------------------- claim C1
\* C1: when N invocations of team t have each ended in Success with the same
\* total_tokens = k, no admin reset of t has happened and none of t's
\* invocations is still running, t.used_tokens is its prior value plus N*k.
C1_NoLostUpdate ==
    \A t \in TeamIds :
        (/\ Quiet(t)
         /\ ~resetSeen[t]
         /\ Cardinality(Range(credited[t])) <= 1)
        => teams[t].used_tokens =
              InitTeams[t].used_tokens + Sum(credited[t])

\* --------------------------------------------------------------- claim C2
\* C2: an invocation that got past TokenAuth has written exactly one log row
\* when it ends, whatever the stage it ends in; one rejected at TokenAuth has
\* written none.
C2_ExactlyOneLog ==
    Finished => last.nlog = (IF PastTokenAuth THEN 1 ELSE 0)

\* The instants at which check_rate_limit accepted a request of team t.
RECURSIVE AcceptedAt(_)
AcceptedAt(d) ==
    IF d = <<>> THEN <<>>
    ELSE IF Head(d).ok THEN <<Head(d).at>> \o AcceptedAt(Tail(d))
         ELSE AcceptedAt(Tail(d))

\* Slot i takes its check_rate_limit step.
RateLimitStep(i) == pc[i] = "RateLimit" /\ pc'[i] # "RateLimit"
RateLimitRejects(i) == pc'[i] = "idle" /\ last'.result.status_code = HTTP_429
RateLimitAccepts(i) == pc'[i] = "Quota"

\* --------------------------------------------------------------- claim C3
\* C3: a call of the rate limiter for a team with limit L is rejected when L
\* accepted requests of the team are less than 60 seconds old, and accepted
\* when fewer than L accepted requests are at most 60 seconds old; the clock
\* minute the call falls in plays no part.
C3_SlidingWindow ==
    [][\A i \in Slots :
        RateLimitStep(i) =>
            LET t == team[i].id
                L == teams[t].max_requests_per_minute
                acc == AcceptedAt(decisions[t])
                young == {k \in 1..Len(acc) : now - acc[k] < RateWindow}
                recent == {k \in 1..Len(acc) : now - acc[k] <= RateWindow}
            IN  /\ Cardinality(young) >= L => RateLimitRejects(i)
                /\ Cardinality(recent) < L => RateLimitAccepts(i)]_vars

\* L requests accepted within one second, a further one rejected while they
\* were all younger than 60 seconds, then one accepted after the oldest had
\* aged past 60 seconds.
C3_Witness ==
    \E t \in TeamIds :
        LET L == teams[t].max_requests_per_minute
            d == decisions[t]
        IN  /\ Len(d) >= L + 2
            /\ \A k \in 1..L : d[k].ok /\ d[k].at - d[1].at <= 1
            /\ ~d[L + 1].ok /\ d[L + 1].at - d[1].at < RateWindow
            /\ d[L + 2].ok /\ d[L + 2].at - d[1].at > RateWindow

\* --------------------------------------------------------------- claim C4
\* C4: a call of the rate limiter keeps exactly the timestamps that are not
\* older than 60 seconds (one exactly 60 seconds old is kept); if that many
\* reach the limit it rejects and adds nothing, otherwise it appends now and
\* accepts.
C4_PruneThenDecide ==
    [][\A i \in Slots :
        RateLimitStep(i) =>
            LET t == team[i].id
                kept == SelectSeq(tracker[t], LAMBDA ts : ts >= now - RateWindow)
            IN  IF Len(kept) >= team[i].max_requests_per_minute
                THEN RateLimitRejects(i) /\ tracker'[t] = kept
                ELSE RateLimitAccepts(i) /\ tracker'[t] = Append(kept, now)]_vars

\* --------------------------------------------------------------- claim C5
\* C5: for every team, every trailing 60-second window (now - 60, now] holds
\* at most L accepted requests, and every accepted request that is still
\* inside the window is in the team's tracker list, once per request.
InWindow(q, end) == SelectSeq(q, LAMBDA ts : ts > end - RateWindow /\ ts <= end)

C5_WindowCeiling ==
    \A t \in TeamIds :
        LET acc == AcceptedAt(decisions[t])
        IN  /\ \A k \in 1..Len(acc) :
                   Len(InWindow(acc, acc[k])) <= teams[t].max_requests_per_minute
            /\ InWindow(tracker[t], now) = InWindow(acc, now)

\* Two requests of one team in flight together: one holds a timestamp of a
\* full window, the other has just been rejected by the rate limiter.
C5_Witness ==
    \E t \in TeamIds, i \in Slots :
        /\ pc[i] = "Quota" /\ team[i].id = t
        /\ RejectedAt("RateLimit") /\ last.team.id = t
        /\ Len(InWindow(tracker[t], now)) = teams[t].max_requests_per_minute

\* --------------------------------------------------------------- claim C6
\* C6: the quota check rejects (429 at the Quota gate) exactly when the team
\* object it is given has used_tokens >= quota_tokens, and a rejection by it
\* changes neither table nor the tracker; a request admitted at
\* used_tokens = quota_tokens - 1 that costs 1 token, with no other write to
\* the team in between, leaves used_tokens = quota_tokens.
GatesStep(i) == pc[i] = "Quota" /\ pc'[i] # "Quota"
CreditStep(i) ==
    pc[i] = "credit_write" /\ pc'[i] = "idle" /\ last'.result.status_code = HTTP_200

C6_QuotaBoundary ==
    [][\A i \in Slots :
        /\ GatesStep(i) =>
            /\ (/\ pc'[i] = "idle"
                /\ last'.evaluated[Len(last'.evaluated)] = "Quota"
                /\ last'.result.status_code = HTTP_429)
               <=> team[i].used_tokens >= team[i].quota_tokens
            /\ team[i].used_tokens >= team[i].quota_tokens
                  => UNCHANGED <<teams, logs, tracker>>
        /\ (/\ CreditStep(i)
            /\ team[i].used_tokens = team[i].quota_tokens - 1
            /\ UsageGet(response_data[i], "total_tokens") = 1
            /\ rd[i] = team[i].used_tokens
            /\ teams[team[i].id].used_tokens = rd[i])
           => teams'[team[i].id].used_tokens = team[i].quota_tokens]_vars

\* A one-token request has brought a team from quota - 1 to exactly its
\* quota, and the team's next request is rejected by the quota check.
C6_Witness ==
    /\ RejectedAt("Quota")
    /\ last.team.used_tokens = last.team.quota_tokens
    /\ credited[last.team.id] = <<1>>
    /\ teams[last.team.id].used_tokens = teams[last.team.id].quota_tokens

\* --------------------------------------------------------------- claim C7
\* C7: a request whose header does not start with "Bearer ", whose token is
\* empty or whose token matches no team ends at TokenAuth with 401; one
\* whose token matches an inactive team ends at TokenAuth with 403, whatever
\* the team's usage and tracker; nothing else is touched.
AuthStep == started' # started
\* The header of the request the step authenticates.
AuthHeader ==
    IF \E i \in Slots : pc[i] = "idle" /\ pc'[i] = "RateLimit"
    THEN hdr'[CHOOSE i \in Slots : pc[i] = "idle" /\ pc'[i] = "RateLimit"]
    ELSE last'.hdr
StopsAtTokenAuth(code) ==
    /\ pc' = pc
    /\ last'.result.status_code = code
    /\ last'.evaluated = <<"TokenAuth">>
    /\ last'.nlog = 0
    /\ UNCHANGED <<teams, logs, tracker>>

C7_TokenAuthFailsClosed ==
    [][AuthStep =>
        LET h == AuthHeader
            matching == {t \in TeamIds : teams[t].token = h.cred}
        IN  /\ (h.scheme # "Bearer" \/ h.cred = "" \/ matching = {})
                  => StopsAtTokenAuth(HTTP_401)
            /\ (/\ h.scheme = "Bearer" /\ h.cred # ""
                /\ \E t \in matching : ~teams[t].is_active)
                  => StopsAtTokenAuth(HTTP_403)]_vars

\* An inactive team that is over quota and whose window is full was answered 403.
C7_Witness ==
    /\ Finished
    /\ last.result.status_code = HTTP_403
    /\ \E t \in TeamIds :
        /\ teams[t].token = last.hdr.cred
        /\ ~teams[t].is_active
        /\ teams[t].used_tokens >= teams[t].quota_tokens
        /\ Len(InWindow(tracker[t], now)) >= teams[t].max_requests_per_minute

\* --------------------------------------------------------------- claim C8
\* C8: the gates an invocation evaluates form a prefix of TokenAuth,
\* RateLimit, Quota, ModelAllowed, StreamingRejected, Forward; a rejection is
\* the outcome of the last gate evaluated, and every gate evaluated before
\* it passed, so a request that fails several gates gets the earliest one's
\* outcome.
GateOrder ==
    <<"TokenAuth", "RateLimit", "Quota", "ModelAllowed", "StreamingRejected", "Forward">>

IsPrefix(q, r) == Len(q) <= Len(r) /\ \A k \in 1..Len(q) : q[k] = r[k]

GatesOf(e) ==
    IF e # <<>> /\ e[Len(e)] = "Success" THEN SubSeq(e, 1, Len(e) - 1) ELSE e

\* The gate whose rejection `res` is.
GateOf(res) ==
    CASE res.status_code \in {HTTP_401, HTTP_403} -> "TokenAuth"
      [] res.detail = <<"Rate limit exceeded">> -> "RateLimit"
      [] res.detail = <<"Token quota exceeded">> -> "Quota"
      [] res.detail[1] = "Model is not available" -> "ModelAllowed"
      [] res.detail = <<"Streaming is not supported">> -> "StreamingRejected"
      [] OTHER -> "Forward"

\* Would the finished request fail `gate`, judged on the request and on the
\* team object the handler held?
WouldFail(gate) ==
    CASE gate = "Quota" -> last.team.used_tokens >= last.team.quota_tokens
      [] gate = "ModelAllowed" -> Lower(last.req.model) # "gpt-5-nano"
      [] gate = "StreamingRejected" -> last.req.stream
      [] OTHER -> FALSE

C8_FixedOrder ==
    /\ \A i \in Slots : IsPrefix(evaluated[i], GateOrder)
    /\ Finished =>
        LET g == GatesOf(last.evaluated)
        IN  /\ IsPrefix(g, GateOrder)
            /\ \A k \in 1..(Len(g) - 1) : ~WouldFail(g[k])
            /\ last.result.status_code # HTTP_200 =>
                /\ GateOf(last.result) = g[Len(g)]
                /\ g[Len(g)] \in {"Quota", "ModelAllowed", "StreamingRejected"}
                      => WouldFail(g[Len(g)])
            /\ last.result.status_code = HTTP_200 =>
                \A k \in 1..Len(g) : ~WouldFail(g[k])

\* A request that would fail the rate limit, the quota check, the allowlist
\* and the streaming check was answered by the rate limiter.
C8_Witness ==
    /\ RejectedAt("RateLimit")
    /\ last.team.used_tokens >= last.team.quota_tokens
    /\ Lower(last.req.model) # "gpt-5-nano"
    /\ last.req.stream
    /\ last.evaluated = <<"TokenAuth", "RateLimit">>

\* --------------------------------------------------------------- claim C9
\* C9: a request with stream = true of an authenticated active team ends
\* with 400 and has written a log row, whatever the team's rate-limit and
\* quota state and the model.
C9_StreamAlways400Logged ==
    (PastTokenAuth /\ last.req.stream)
        => last.result.status_code = HTTP_400 /\ last.nlog = 1

\* -------------------------------------------------------------- claim C10
\* C10: a rejection at the RateLimit stage or at the Quota stage is a 429
\* and has written a log row of the team with zero input, output and total
\* tokens and status "error".
C10_Rejection429Logged ==
    (RejectedAt("RateLimit") \/ RejectedAt("Quota")) =>
        /\ last.result.status_code = HTTP_429
        /\ last.nlog = 1
        /\ \E k \in 1..Len(logs) :
            /\ logs[k].team_id = last.team.id
            /\ logs[k].input_tokens = 0 /\ logs[k].output_tokens = 0
            /\ logs[k].total_tokens = 0 /\ logs[k].status = "error"

\* -------------------------------------------------------------- claim C11
\* C11: a requested model passes the allowlist check if and only if its
\* lower-cased name equals the lower-cased name of a configured allowed
\* model, and every log row the pipeline writes stores the lower-cased name
\* of the model its request asked for.
LowerCaseNames == {"gpt-5-nano", "llama"}
EndsAt(inv, gate) == inv.evaluated # <<>> /\ inv.evaluated[Len(inv.evaluated)] = gate

C11_AllowlistIgnoresCase ==
    [][\A i \in Slots :
        /\ (GatesStep(i) /\ team[i].used_tokens < team[i].quota_tokens) =>
            (~(pc'[i] = "idle" /\ EndsAt(last', "ModelAllowed"))
                <=> \E k \in 1..Len(allowed_models_list) :
                        Lower(allowed_models_list[k]) = Lower(req[i].model))
        /\ (pc'[i] # pc[i] /\ logs' # logs) =>
            /\ Len(logs') = Len(logs) + 1
            /\ SubSeq(logs', 1, Len(logs)) = logs
            /\ logs'[Len(logs')].model = Lower(req[i].model)
            /\ logs'[Len(logs')].model \in LowerCaseNames]_vars

\* A request naming "GPT-5-NANO" was served under the allowlist
\* <<"GPT-5-nano">> and logged as "gpt-5-nano".
C11_Witness ==
    /\ last.req.model = "GPT-5-NANO" /\ last.result.status_code = HTTP_200
    /\ Len(logs) = 1
    /\ logs[1].model = "gpt-5-nano" /\ logs[1].status = "success"

\* The last row of the log table after the step is new and is an error row
\* of team t with zero tokens.
AppendsErrorRow(t) ==
    /\ Len(logs') = Len(logs) + 1
    /\ SubSeq(logs', 1, Len(logs)) = logs
    /\ LET row == logs'[Len(logs')]
       IN  /\ row.team_id = t
           /\ row.input_tokens = 0 /\ row.output_tokens = 0 /\ row.total_tokens = 0
           /\ row.status = "error"

\* -------------------------------------------------------------- claim C12
\* C12: a request that passed RateLimit and Quota but names a model outside
\* the allowlist is answered 400, is not forwarded, and writes exactly one
\* log row: zero input, output and total tokens, status "error" and the
\* lower-cased model name.
C12_ModelRejectionLogged ==
    [][\A i \in Slots :
        (/\ GatesStep(i)
         /\ team[i].used_tokens < team[i].quota_tokens
         /\ \A k \in 1..Len(allowed_models_list) :
                Lower(allowed_models_list[k]) # Lower(req[i].model))
        => /\ pc'[i] = "idle"
           /\ last'.result.status_code = HTTP_400
           /\ EndsAt(last', "ModelAllowed")
           /\ last'.ncalls = 0 /\ last'.outcome = NoOutcome
           /\ last'.nlog = 1
           /\ AppendsErrorRow(team[i].id)
           /\ logs'[Len(logs')].model = Lower(req[i].model)
           /\ UNCHANGED teams]_vars

\* A request for "Llama" was rejected by the allowlist and left one row.
C12_Witness ==
    /\ RejectedAt("ModelAllowed")
    /\ last.req.model = "Llama"
    /\ last.ncalls = 0
    /\ Len(logs) = 1 /\ logs[1].model = "llama" /\ logs[1].status = "error"

\* -------------------------------------------------------------- claim C13
\* C13: when the forwarder raises a typed error (provider non-200, timeout,
\* connection failure, failure inside the forwarder) the pipeline writes one
\* log row with zero tokens, status "error" and the error's detail as
\* error_message, and the caller gets the same status code and detail; a
\* provider timeout gives 504.
ForwardStep(i) == pc[i] = "Forward" /\ pc'[i] # "Forward"

C13_ForwarderErrorLoggedAndReraised ==
    [][\A i \in Slots :
        (ForwardStep(i) /\ pc'[i] = "idle") =>
            LET raised == forward_chat_completion(last'.outcome)
            IN  /\ raised.raised
                /\ last'.result.status_code = raised.status_code
                /\ last'.result.detail = raised.detail
                /\ last'.outcome.kind = "timeout" => last'.result.status_code = HTTP_504
                /\ last'.nlog = 1
                /\ AppendsErrorRow(team[i].id)
                /\ logs'[Len(logs')].error_message = raised.detail
                /\ UNCHANGED teams]_vars

\* The provider timed out: the caller got 504 and the log holds one error row.
C13_Witness ==
    /\ Finished
    /\ last.outcome.kind = "timeout"
    /\ last.result.status_code = HTTP_504
    /\ Len(logs) = 1 /\ logs[1].status = "error" /\ logs[1].total_tokens = 0
    /\ logs[1].error_message = <<"Request to provider timed out">>

\* -------------------------------------------------------------- claim C14
\* C14: the forwarder turns a provider reply with status s # 200 into an
\* error with status s whose detail holds the body's error.message when the
\* body is JSON carrying one and the raw body text otherwise; a timeout into
\* 504; a connection failure into 502; a 200 reply whose body does not parse
\* into an error, never a normal return; and it returns the body of a 200
\* reply that parses.
C14_ForwarderMapping ==
    [][\A i \in Slots :
        ForwardStep(i) =>
            LET raised == pc'[i] = "idle"
                o == IF raised THEN last'.outcome ELSE outcome'[i]
                res == last'.result
                carries == o.body.json /\ o.body.object /\ o.body.message # None
            IN  /\ o.kind \in {"timeout", "connect", "response"}
                /\ (o.kind = "response" /\ o.status # 200) =>
                      /\ raised
                      /\ res.status_code = o.status
                      /\ res.detail = <<"Provider error: ",
                                        IF carries THEN o.body.message ELSE o.body.text>>
                /\ o.kind = "timeout" => raised /\ res.status_code = HTTP_504
                /\ o.kind = "connect" => raised /\ res.status_code = HTTP_502
                /\ (o.kind = "response" /\ o.status = 200 /\ ~o.body.json) =>
                      raised /\ res.status_code = HTTP_500
                /\ (o.kind = "response" /\ o.status = 200 /\ o.body.json) =>
                      ~raised /\ pc'[i] = "Success" /\ response_data'[i] = o.body]_vars

\* A 503 with a body that is not JSON came back as 503 with the raw text,
\* after a 400 whose JSON carried error.message "bad request".
C14_Witness ==
    /\ Finished
    /\ last.outcome.status = 503 /\ ~last.outcome.body.json
    /\ last.result = HTTPException(503, <<"Provider error: ", "upstream down">>)
    /\ Len(logs) = 2
    /\ logs[1].error_message = <<"Provider error: ", "bad request">>

\* -------------------------------------------------------------- claim C15
\* C15: a step of the admission pipeline changes a team's used_tokens only
\* when it is the step in which an invocation of that team ends in Success;
\* an invocation that is rejected at a gate or fails at or after Forward
\* changes no team's used_tokens.
C15_CreditOnlyOnSuccess ==
    [][(adminOps' = adminOps /\ \E t \in TeamIds : teams'[t].used_tokens # teams[t].used_tokens)
        => \E i \in Slots :
            /\ pc[i] = "credit_write" /\ pc'[i] = "idle"
            /\ last'.result.status_code = HTTP_200
            /\ EndsAt(last', "Success")
            /\ \A t \in TeamIds \ {team[i].id} :
                    teams'[t].used_tokens = teams[t].used_tokens]_vars

\* An invocation failed while crediting, after the provider had answered
\* with a usage of 2 tokens, and its team's used_tokens is still 0.
C15_Witness ==
    /\ Finished
    /\ last.result.status_code = HTTP_500
    /\ last.outcome.body.total_tokens = 2
    /\ last.nlog = 2
    /\ teams[last.team.id].used_tokens = 0

\* -------------------------------------------------------------- claim C16
\* C16: an invocation that reaches Success has written one log row with
\* status "success", the provider's prompt and completion counts and the
\* request and response snapshots; its credit raises the team's used_tokens
\* by the provider's total_tokens; and it returns the provider's response,
\* the row being written before the credit and the credit before the return.
C16_SuccessEffects ==
    [][\A i \in Slots :
        CreditStep(i) =>
            LET t == team[i].id
                body == outcome[i].body
            IN  /\ nlog[i] = 1
                /\ \E k \in 1..Len(logs) :
                        /\ logs[k].team_id = t /\ logs[k].status = "success"
                        /\ logs[k].input_tokens = UsageGet(body, "prompt_tokens")
                        /\ logs[k].output_tokens = UsageGet(body, "completion_tokens")
                        /\ logs[k].request_payload = Payload(req[i])
                        /\ logs[k].response_payload = body
                /\ logs' = logs
                /\ teams'[t].used_tokens =
                        teams[t].used_tokens + UsageGet(body, "total_tokens")
                /\ last'.returned = body
                /\ EndsAt(last', "Success")]_vars

\* -------------------------------------------------------------- claim C17
\* C17: an invocation makes one call to the provider when it passes
\* TokenAuth, RateLimit, Quota, ModelAllowed and StreamingRejected, whatever
\* the reply (timeout, connection failure, non-200), and none when one of
\* those gates rejects it.
C17_AtMostOneProviderCall ==
    /\ \A i \in Slots :
        ncalls[i] = (IF pc[i] \in {"Forward", "Success", "credit_read", "credit_write"}
                     THEN 1 ELSE 0)
    /\ Finished =>
        /\ last.ncalls <= 1
        /\ last.ncalls = 1 <=> last.outcome # NoOutcome
        /\ last.ncalls = 1 <=>
              /\ Len(last.evaluated) >= 3
              /\ \A g \in {"Quota", "ModelAllowed", "StreamingRejected"} : ~WouldFail(g)

\* An invocation whose call to the provider timed out made that one call.
C17_Witness ==
    /\ Finished
    /\ last.outcome.kind = "timeout"
    /\ last.ncalls = 1

\* -------------------------------------------------------------- claim C18
\* C18: a team's used_tokens decreases only in the step of an admin reset,
\* which sets it to zero; an admin update does not change it.
C18_NeverDecreases ==
    [][\A t \in TeamIds :
        /\ teams'[t].used_tokens < teams[t].used_tokens =>
              /\ adminOps' = adminOps + 1
              /\ resetSeen'[t]
              /\ teams'[t].used_tokens = 0
        /\ (adminOps' = adminOps + 1 /\ resetSeen' = resetSeen) =>
              teams'[t].used_tokens = teams[t].used_tokens]_vars

\* -------------------------------------------------------------- claim C19
\* C19: when the forwarder has returned and something is raised afterwards
\* (extracting the usage, writing the success row, crediting used_tokens),
\* the caller gets 500 and the invocation has written exactly one log row,
\* with status "error", zero tokens and the stringified cause.
ForwarderReturned(inv) ==
    inv.outcome.kind = "response" /\ inv.outcome.status = 200 /\ inv.outcome.body.json

C19_UnexpectedErrorOneLog ==
    [][\A i \in Slots :
        (/\ pc[i] \in {"Success", "credit_read", "credit_write"}
         /\ pc'[i] = "idle"
         /\ ~EndsAt(last', "Success"))
        => /\ ForwarderReturned(last')
           /\ last'.result.status_code = HTTP_500
           /\ last'.nlog = 1
           /\ AppendsErrorRow(team[i].id)
           /\ last'.result.detail =
                  <<"Internal error: ">> \o logs'[Len(logs')].error_message]_vars

Usernames == {"alpha", "ALPHA", "alph_", "%", "gamma", "delta"}

\* The characters of the names and usernames in play.
Chars(s) ==
    CASE s = "alpha" -> <<"a", "l", "p", "h", "a">>
      [] s = "ALPHA" -> <<"A", "L", "P", "H", "A">>
      [] s = "alph_" -> <<"a", "l", "p", "h", "_">>
      [] s = "%"     -> <<"%">>
      [] s = "beta"  -> <<"b", "e", "t", "a">>
      [] s = "gamma" -> <<"g", "a", "m", "m", "a">>
      [] s = "delta" -> <<"d", "e", "l", "t", "a">>

LowerChar(c) ==
    CASE c = "A" -> "a" [] c = "L" -> "l" [] c = "P" -> "p" [] c = "H" -> "h"
      [] OTHER -> c

LowerChars(q) == [k \in 1..Len(q) |-> LowerChar(q[k])]

\* SQL LIKE: % matches any run of characters, _ any one character.
RECURSIVE Like(_, _)
Like(q, pattern) ==
    IF pattern = <<>> THEN q = <<>>
    ELSE IF Head(pattern) = "%"
    THEN Like(q, Tail(pattern)) \/ (q # <<>> /\ Like(Tail(q), pattern))
    ELSE IF q = <<>> THEN FALSE
    ELSE IF Head(pattern) = "_" THEN Like(Tail(q), Tail(pattern))
    ELSE Head(q) = Head(pattern) /\ Like(Tail(q), Tail(pattern))

\* Team.name.ilike(username): lower(name) LIKE lower(username)
ilike(name, username) == Like(LowerChars(Chars(name)), LowerChars(Chars(username)))

\* The dictionary get_usage returns for team t; usage_percentage in
\* hundredths of a percent.
UsageSnapshot(t) ==
    [team_name |-> teams[t].name,
     quota_tokens |-> teams[t].quota_tokens,
     used_tokens |-> teams[t].used_tokens,
     remaining_tokens |-> teams[t].quota_tokens - teams[t].used_tokens,
     usage_percentage |-> IF teams[t].quota_tokens > 0
                          THEN (teams[t].used_tokens * 10000) \div teams[t].quota_tokens
                          ELSE 0,
     total_requests |-> Len(SelectSeq(logs, LAMBDA row : row.team_id = t)),
     max_requests_per_minute |-> teams[t].max_requests_per_minute,
     is_active |-> teams[t].is_active]

\* GET /v1/usage/{username}: .first() of a query without ORDER BY returns any
\* one of the matching rows.
get_usage(username) ==
    /\ LET matching == {t \in DOMAIN teams : ilike(teams[t].name, username)}
       IN  IF matching = {}
           THEN usage_reply' = [username |-> username, id |-> 0, body |-> <<>>]
           ELSE \E t \in matching :
                  usage_reply' = [username |-> username, id |-> t,
                                  body |-> UsageSnapshot(t)]
    /\ UNCHANGED <<db, limiter, clock, restarts, admin, started, handler, history,
                   last, credited, resetSeen>>

NextUsage ==
    \/ NextTeams
    \/ \E u \in Usernames : get_usage(u)

SpecUsage == Init /\ [][NextUsage]_vars

\* The name equals the username when letter case is ignored.
SameIgnoringCase(name, username) == LowerChars(Chars(name)) = LowerChars(Chars(username))

\* C21: a GET /v1/usage/{username} returns the snapshot of a team whose name
\* equals the username ignoring letter case, and the empty object when there
\* is no such team.
C21_UsageByNameIgnoringCase ==
    [][usage_reply' # usage_reply =>
        LET same == {t \in DOMAIN teams :
                        SameIgnoringCase(teams[t].name, usage_reply'.username)}
        IN  IF same = {}
            THEN usage_reply'.body = <<>>
            ELSE \E t \in same : usage_reply'.body = UsageSnapshot(t)]_vars

Cascade_none(rows, t) == rows

\* Team.logs has cascade="all, delete-orphan": the rows of the deleted team
\* are deleted with it.
Cascade(rows, t) == SelectSeq(rows, LAMBDA row : row.team_id # t)

\* admin.delete_team: 404 for a team that is gone, else db.delete(team);
\* db.commit().  The limiter's window of the team stays in memory.
delete_team(t) ==
    /\ adminOps < MaxAdminOps
    /\ adminOps' = adminOps + 1
    /\ IF t \in DOMAIN teams
       THEN /\ teams' = [u \in DOMAIN teams \ {t} |-> teams[u]]
            /\ logs' = Cascade(logs, t)
       ELSE UNCHANGED <<teams, logs>>
    /\ UNCHANGED <<limiter, clock, env, started, handler, history, last,
                   credited, resetSeen, adm>>

NextDelete ==
    \/ NextFwd
    \/ \E t \in TeamIds : delete_team(t)

SpecDelete == Init /\ [][NextDelete]_vars

C24_LogEntriesImmutable ==
    [][LET gone == DOMAIN teams \ DOMAIN teams'
           kept == SelectSeq(logs, LAMBDA row : row.team_id \notin gone)
       IN  /\ IsPrefix(kept, logs')
           /\ Len(logs') <= Len(kept) + 1]_vars

\* A team has an error entry followed by a success entry: the later write
\* left the earlier entry in place.
C24_Witness ==
    \E k \in 1..Len(logs) :
        /\ k < Len(logs)
        /\ logs[k].status = "error"
        /\ logs[k + 1].status = "success"
        /\ logs[k + 1].team_id = logs[k].team_id

\* ------------------------------------------------- the caller disconnects
\* The caller closes its connection while the handler awaits the provider.
Disconnect(i) ==
    /\ pc[i] = "Forward"
    /\ connected[i]
    /\ connected' = [connected EXCEPT ![i] = FALSE]
    /\ UNCHANGED <<db, limiter, clock, env, admin, started, pc, hdr, req, team,
                   response_data, rd, history, last, credited, resetSeen>>

NextLive ==
    \/ NextFwd
    \/ \E i \in Slots : Disconnect(i)

\* The provider call returns, fails or times out, and the event loop runs
\* the handler's remaining steps.
Fairness ==
    \A i \in Slots :
        /\ WF_vars(ForwardFwd(i))
        /\ WF_vars(LogSuccess(i))
        /\ WF_vars(CreditRead(i))
        /\ WF_vars(CreditWrite(i))

SpecLive == Init /\ [][NextLive]_vars /\ Fairness

\* The stages of an invocation from the provider call on.
FromForward == {"Forward", "Success", "credit_read", "credit_write"}

\* C25: an invocation that has reached Forward eventually terminates, and it
\* terminates with its log entry written, also when its caller has
\* disconnected.
C25_ForwardedTerminatesLogged ==
    /\ \A i \in Slots : (pc[i] = "Forward") ~> (pc[i] = "idle")
    /\ [][\A i \in Slots :
            pc[i] \in FromForward /\ pc'[i] = "idle" => last'.nlog >= 1]_vars

\* An invocation whose caller disconnected during the provider call went on
\* to log and credit the success.
C25_Witness ==
    /\ Finished
    /\ ~last.connected
    /\ last.nlog = 1
    /\ last.result.status_code = HTTP_200

\* C26: while one invocation is suspended waiting for the provider, every
\* other invocation can take the next step of whatever stage it is in, and
\* a free handler can take up a new request.
C26_NotBlockedByProviderWait ==
    \A i \in Slots : \A j \in Slots \ {i} :
        pc[i] = "Forward" =>
            /\ pc[j] = "idle" /\ started < FwdMaxRequests
                  => ENABLED validate_team_token_Fwd(j)
            /\ pc[j] = "RateLimit" => ENABLED check_rate_limit(j)
            /\ pc[j] = "Quota" => ENABLED admission_gates(j)
            /\ pc[j] = "Forward" => ENABLED ForwardFwd(j)
            /\ pc[j] = "Success" => ENABLED LogSuccess(j)
            /\ pc[j] = "credit_read" => ENABLED CreditRead(j)
            /\ pc[j] = "credit_write" => ENABLED CreditWrite(j)

\* One invocation waits for the provider while another, whose provider call
\* has returned, is about to credit its team.
C26_Witness ==
    \E i \in Slots : \E j \in Slots \ {i} :
        pc[i] = "Forward" /\ pc[j] = "credit_write"

\* ------------------------------------------------------- process restart
\* A limiter whose windows are kept in a store that outlives the process.
EmptyTracker_durable == tracker

\* _rate_limit_tracker = {} when the module is loaded; a team without a key
\* has an empty window.
EmptyTracker == [t \in TeamIds |-> <<>>]

\* The process stops and starts again: the handlers in flight are gone, the
\* module-level tracker is built anew, the database file is what it was.
Restart ==
    /\ restarts < MaxRestarts
    /\ restarts' = restarts + 1
    /\ tracker' = EmptyTracker
    /\ pc' = [i \in Slots |-> "idle"]
    /\ hdr' = [i \in Slots |-> NoHeader]
    /\ req' = [i \in Slots |-> NoRequest]
    /\ team' = [i \in Slots |-> NoTeam]
    /\ response_data' = [i \in Slots |-> NoBody]
    /\ rd' = [i \in Slots |-> 0]
    /\ connected' = [i \in Slots |-> TRUE]
    /\ evaluated' = [i \in Slots |-> <<>>]
    /\ nlog' = [i \in Slots |-> 0]
    /\ ncalls' = [i \in Slots |-> 0]
    /\ outcome' = [i \in Slots |-> NoOutcome]
    /\ sent' = [i \in Slots |-> NoPost]
    /\ UNCHANGED <<db, clock, admin, started, last, decisions, credited,
                   resetSeen, usage_reply>>

NextRestart ==
    \/ NextRL
    \/ Restart

SpecRestart == Init /\ [][NextRestart]_vars

\* C27: a process restart empties every team's rate-limiter window and
\* leaves the teams table (used_tokens, quota_tokens, is_active) and all log
\* entries as they were; a rate-limit check that finds the window empty
\* accepts the request of a team whose limit is at least one.
C27_RestartResetsLimiterOnly ==
    [][/\ restarts' # restarts =>
            /\ \A t \in TeamIds : tracker'[t] = <<>>
            /\ teams' = teams
            /\ logs' = logs
       /\ \A i \in Slots :
            /\ restarts' = restarts
            /\ RateLimitStep(i)
            /\ tracker[team[i].id] = <<>>
            /\ team[i].max_requests_per_minute >= 1
            => RateLimitAccepts(i)]_vars

\* A team was rejected by the rate limiter and, after a restart, accepted at
\* the same instant.
C27_Witness ==
    /\ restarts = 1
    /\ \E t \in TeamIds : \E k \in 1..Len(decisions[t]) :
          /\ k < Len(decisions[t])
          /\ ~decisions[t][k].ok
          /\ decisions[t][k + 1].ok
          /\ decisions[t][k + 1].at = decisions[t][k].at

\* ------------------------------------------------------ the payload sent
\* JSON bodies a caller posts: a body with only the required fields, one
\* with explicit nulls, one with every field set.  Numbers are written as
\* their JSON text.
JsonBodies ==
    {[model |-> "GPT-5-NANO", messages |-> "hi"],
     [model |-> "gpt-5-nano", messages |-> "hi", temperature |-> None,
      max_tokens |-> "16", stream |-> FALSE],
     [model |-> "gpt-5-nano", messages |-> "hi", temperature |-> "0.2",
      max_tokens |-> None],
     [model |-> "GPT-5-NANO", messages |-> "hi", temperature |-> "0.2",
      max_tokens |-> "16", stream |-> FALSE]}

\* ChatCompletionRequest built from a JSON body: a field the body lacks
\* takes its default (temperature 1.0, max_tokens None, stream False).
model_validate(json) ==
    [model |-> json.model,
     messages |-> json.messages,
     temperature |-> IF "temperature" \in DOMAIN json THEN json.temperature ELSE "1.0",
     max_tokens |-> IF "max_tokens" \in DOMAIN json THEN json.max_tokens ELSE None,
     stream |-> IF "stream" \in DOMAIN json THEN json.stream ELSE FALSE]

PayloadRequests ==
    {[hdr |-> [scheme |-> "Bearer", cred |-> "tokA"], body |-> model_validate(j)] :
        j \in JsonBodies}

PayloadOutcomes == {o \in TransportOutcomes : o.kind = "timeout" \/ o.body.has_usage}

validate_team_token_Pay(i) == validate_team_token_of(i, PayloadRequests, FwdMaxRequests)
ForwardPay(i) == ForwardOf(i, PayloadOutcomes)

NextPayload ==
    \/ \E i \in Slots : validate_team_token_Pay(i)
    \/ \E i \in Slots : check_rate_limit(i)
    \/ \E i \in Slots : admission_gates(i)
    \/ \E i \in Slots : ForwardPay(i)
    \/ \E i \in Slots : LogSuccess(i)
    \/ \E i \in Slots : CreditRead(i)
    \/ \E i \in Slots : CreditWrite(i)

SpecPayload == Init /\ [][NextPayload]_vars

\* The JSON body the request of a handler was built from.
JsonOf(request) == CHOOSE j \in JsonBodies : model_validate(j) = request

\* The caller's body with the model lower-cased and its null fields left out.
Normalized(json) ==
    [f \in {g \in DOMAIN json : g \notin NullableFields \/ json[g] # None} |->
        IF f = "model" THEN Lower(json.model) ELSE json[f]]

\* C28: the payload posted to the provider is the caller's request with the
\* model lower-cased and every null or absent field omitted, it holds no
\* null field, and the success log stores that same payload.
C28_PayloadIsNormalizedRequest ==
    [][\A i \in Slots :
        /\ GatesStep(i) /\ pc'[i] = "Forward" =>
              /\ sent'[i].payload = Normalized(JsonOf(req[i]))
              /\ \A f \in DOMAIN sent'[i].payload \cap NullableFields :
                    sent'[i].payload[f] # None
        /\ pc[i] = "Success" /\ pc'[i] = "credit_read" =>
              logs'[Len(logs')].request_payload = sent[i].payload]_vars

\* ------------------------------------------------- the forwarder's timeout
ProxyService_timeout == 120     \* self.timeout = 120.0, in seconds
settings_provider_timeout == 30 \* PROVIDER_TIMEOUT=30 set by the operator
WaitSteps == {30, 90}           \* seconds the clock may advance while a call waits

\* Time passes while provider calls are outstanding; the timer of a call
\* fires when it has waited for the forwarder's timeout.
Elapse ==
    /\ ticks < MaxWaits
    /\ ticks' = ticks + 1
    /\ \E d \in WaitSteps :
        /\ \A i \in Slots :
              pc[i] = "Forward" => sent[i].waited + d <= ProxyService_timeout
        /\ now' = now + d
        /\ sent' = [i \in Slots |->
                      IF pc[i] = "Forward"
                      THEN [sent[i] EXCEPT !.waited = @ + d]
                      ELSE sent[i]]
    /\ UNCHANGED <<db, limiter, env, admin, started, handler, evaluated, nlog,
                   ncalls, outcome, last, credited, resetSeen>>

\* What the transport can deliver to a call that has waited so long:
\* httpx.AsyncClient(timeout=self.timeout) raises TimeoutException when the
\* timer has fired, and the provider's answer before that.
TimedOutcomes(i) ==
    IF sent[i].waited >= ProxyService_timeout
    THEN {o \in PayloadOutcomes : o.kind = "timeout"}
    ELSE {o \in PayloadOutcomes : o.kind # "timeout"}

ForwardTimed(i) == ForwardOf(i, TimedOutcomes(i))

NextTimed ==
    \/ \E i \in Slots : validate_team_token_Fwd(i)
    \/ \E i \in Slots : check_rate_limit(i)
    \/ \E i \in Slots : admission_gates(i)
    \/ \E i \in Slots : ForwardTimed(i)
    \/ \E i \in Slots : LogSuccess(i)
    \/ \E i \in Slots : CreditRead(i)
    \/ \E i \in Slots : CreditWrite(i)
    \/ Elapse

SpecTimed == Init /\ [][NextTimed]_vars

\* C29: a provider call that has not answered after the configured
\* provider_timeout ends as a gateway timeout (504).
C29_ConfiguredTimeoutBounds ==
    [][\A i \in Slots :
        ForwardStep(i) /\ sent[i].waited >= settings_provider_timeout
            => pc'[i] = "idle" /\ last'.result.status_code = HTTP_504]_vars

\* ------------------------------------------------- credit against the log
\* Provider answers with a usage block: one whose total_tokens is the sum of
\* its prompt and completion counts, and one whose total also counts tokens
\* that are in neither.
CreditOutcomes ==
    {[kind |-> "response", status |-> HTTP_200,
      body |-> Body("{usage}", TRUE, TRUE, None, TRUE, 1, 1, t)] : t \in {2, 3}}

ForwardCredit(i) == ForwardOf(i, CreditOutcomes)

NextCredit ==
    \/ \E i \in Slots : validate_team_token_Fwd(i)
    \/ \E i \in Slots : check_rate_limit(i)
    \/ \E i \in Slots : admission_gates(i)
    \/ \E i \in Slots : ForwardCredit(i)
    \/ \E i \in Slots : LogSuccess(i)
    \/ \E i \in Slots : CreditRead(i)
    \/ \E i \in Slots : CreditWrite(i)

SpecCredit == Init /\ [][NextCredit]_vars

\* The total_tokens of the success entries of team t, in log order.
LoggedTotals(t) ==
    LET rows == SelectSeq(logs, LAMBDA row : row.team_id = t /\ row.status = "success")
    IN  [k \in 1..Len(rows) |-> rows[k].total_tokens]

\* C30: without admin reset and team deletion, when no invocation of a team
\* is in flight its used_tokens is its initial value plus the sum of
\* total_tokens over its success log entries.
C30_UsedEqualsLoggedSuccess ==
    \A t \in TeamIds :
        Quiet(t) =>
            teams[t].used_tokens = InitTeams[t].used_tokens + Sum(LoggedTotals(t))

\* ------------------------------------------- what counts against the limit
\* Requests of team 1 that end at every later stage: disallowed model,
\* streaming, quota once the team has been credited, provider failure,
\* success.
SlotRequests == {r \in Requests : r.hdr.cred = "tokA"}

validate_team_token_Slot(i) == validate_team_token_of(i, SlotRequests, FwdMaxRequests)

NextSlots ==
    \/ \E i \in Slots : validate_team_token_Slot(i)
    \/ \E i \in Slots : check_rate_limit(i)
    \/ \E i \in Slots : admission_gates(i)
    \/ \E i \in Slots : Forward(i)
    \/ \E i \in Slots : LogSuccess(i)
    \/ \E i \in Slots : CreditRead(i)
    \/ \E i \in Slots : CreditWrite(i)
    \/ Tick

SpecSlots == Init /\ [][NextSlots]_vars

\* How often the timestamp ts stands in the window.
Count(window, ts) == Len(SelectSeq(window, LAMBDA x : x = ts))

\* The stages of an invocation after the rate-limit check.
AfterRateLimit == {"Quota", "Forward", "Success", "credit_read", "credit_write"}

\* C31: a request that passes the rate-limit check adds exactly one
\* timestamp, its own, to its team's window and a request the rate limiter
\* rejects adds none; no later step of an invocation (quota, model or
\* streaming rejection, provider failure, logging, crediting) changes any
\* window.
C31_AcceptedOccupiesSlot ==
    [][/\ \A i \in Slots :
            RateLimitStep(i) =>
                LET t == team[i].id
                IN  /\ Len(tracker'[t]) <=
                          Len(tracker[t]) + (IF RateLimitAccepts(i) THEN 1 ELSE 0)
                    /\ Count(tracker'[t], now) =
                          Count(tracker[t], now) + (IF RateLimitAccepts(i) THEN 1 ELSE 0)
       /\ \A i \in Slots :
            pc[i] \in AfterRateLimit /\ pc'[i] # pc[i] => tracker' = tracker]_vars

\* After a request rejected for its model, a second request failed at the
\* provider with a timeout: both stand in the team's window.
C31_Witness ==
    /\ Finished
    /\ last.result.status_code = HTTP_504
    /\ Len(logs) = 2
    /\ logs[1].error_message[1] = "Model is not available"
    /\ Len(tracker[last.team.id]) = 2

\* C32: a rate-limit check of a team leaves the window of every other team
\* as it was, and it accepts exactly when the team's own window holds fewer
\* timestamps from the last 60 seconds than the team's limit.
C32_WindowsIsolated ==
    [][\A i \in Slots :
        RateLimitStep(i) =>
            LET t == team[i].id
                own == SelectSeq(tracker[t], LAMBDA ts : ts > now - RateWindow)
            IN  /\ \A u \in TeamIds \ {t} : tracker'[u] = tracker[u]
                /\ RateLimitAccepts(i) <=>
                      Len(own) < team[i].max_requests_per_minute]_vars

\* Team 2 was accepted while the window of team 1 was full.
C32_Witness ==
    /\ Len(tracker[1]) = teams[1].max_requests_per_minute
    /\ Len(decisions[2]) = 1
    /\ decisions[2][1].ok
    /\ decisions[2][1].at > tracker[1][Len(tracker[1])]
    /\ decisions[2][1].at - tracker[1][1] < RateWindow

\* -------------------------------------------- requests that fail TokenAuth
\* One request body under every Authorization header, against teams that an
\* admin may deactivate.
AuthRequests == {r \in Requests : r.body = [model |-> "gpt-5-nano", stream |-> FALSE]}

validate_team_token_Auth(i) == validate_team_token_of(i, AuthRequests, MaxRequests)

NextAuth ==
    \/ \E i \in Slots : validate_team_token_Auth(i)
    \/ \E i \in Slots : check_rate_limit(i)
    \/ \E i \in Slots : admission_gates(i)
    \/ \E i \in Slots : ForwardPay(i)
    \/ \E i \in Slots : LogSuccess(i)
    \/ \E i \in Slots : CreditRead(i)
    \/ \E i \in Slots : CreditWrite(i)
    \/ \E t \in TeamIds, b \in BOOLEAN : update_team(t, b)

SpecAuth == Init /\ [][NextAuth]_vars

\* C33: an invocation rejected at TokenAuth with 401 or 403 adds no
\* timestamp to any window, changes no team, writes no log entry and makes
\* no provider call.
C33_AuthRejectionHasNoEffect ==
    [][AuthStep /\ pc' = pc /\ last'.result.status_code \in {HTTP_401, HTTP_403} =>
        /\ tracker' = tracker
        /\ teams' = teams
        /\ logs' = logs
        /\ ncalls' = ncalls
        /\ sent' = sent
        /\ last'.nlog = 0
        /\ last'.ncalls = 0]_vars

\* After a success that was logged and credited, a request with the token of
\* a deactivated team was answered 403.
C33_Witness ==
    /\ Finished
    /\ last.result.status_code = HTTP_403
    /\ Len(logs) >= 1
    /\ \E t \in TeamIds :
          /\ teams[t].token = last.hdr.cred
          /\ teams[t].used_tokens >= 1
          /\ Len(tracker[t]) >= 1

\* ------------------------------------------------ reset against a credit
NextReset ==
    \/ NextCredit
    \/ \E t \in TeamIds : reset_team_usage(t)

SpecReset == Init /\ [][NextReset]_vars

\* C34: a reset is not lost to a concurrent credit: the first credit that
\* commits after a reset of its team, while the team's used_tokens is still
\* the reset's zero, leaves used_tokens equal to that credit's total and not
\* to the value from before the reset plus the credit; and the reset changes
\* only used_tokens, leaving quotas, windows and log entries as they were.
C34_ResetNotLost ==
    [][/\ \A i \in Slots :
            (/\ CreditStep(i)
             /\ resetSeen[team[i].id]
             /\ teams[team[i].id].used_tokens = 0)
            => teams'[team[i].id].used_tokens =
                  UsageGet(response_data[i], "total_tokens")
       /\ adminOps' # adminOps =>
            /\ \A t \in TeamIds :
                  /\ teams'[t].quota_tokens = teams[t].quota_tokens
                  /\ teams'[t].max_requests_per_minute = teams[t].max_requests_per_minute
                  /\ teams'[t].is_active = teams[t].is_active
            /\ tracker' = tracker
            /\ logs' = logs]_vars

====
